---- MODULE Spec2Model ----
(***************************************************************************)
(* Model of daily_prices/generate_bitcoin_prices_kaggle.py: the script     *)
(* that loads a Bitcoin/USD feed and per-currency exchange rates, aligns   *)
(* the rates onto the Bitcoin calendar and writes one CSV.                 *)
(*                                                                         *)
(* Numbers are fixed-point thousandths (1234 is 1.234); a calendar day is  *)
(* its day number since the epoch; NaN stands for pandas' NaN and NaT.     *)
(***************************************************************************)
EXTENDS Integers, Sequences, FiniteSets, TLC

VARIABLES
    pc,                   \* position in main()
    env,                  \* which of KAGGLE_USERNAME, KAGGLE_KEY are set
    btc_source,           \* the Bitcoin dataset as Kaggle serves it
    downloads,            \* the kagglehub.dataset_download calls made, in order
    bitcoin_df,           \* the daily series load_bitcoin_data_from_kaggle returns
    file_index,           \* position of the loop over currency_files
    currency_dataframes,  \* the dict load_currency_data_from_kaggle builds
    currency_prices,      \* per currency, the frame calculate_bitcoin_prices returns
    actual_data,          \* per currency, the "with actual rates" count it prints
    result_df,            \* main's running table
    output                \* the CSV file

vars == <<pc, env, btc_source, downloads, bitcoin_df, file_index,
          currency_dataframes, currency_prices, actual_data, result_df, output>>

\* ------------------------------------------------------------- bounds
MaxFeedRows == 2
MaxFeedDay == 1
MaxFileRows == 2
MaxDay == 2
MaxRates == 3

\* ---------------------------------------------------------- constants
NaN == -1
SecondsPerDay == 86400
Scale == 1000

SUPPORTED_CURRENCIES ==
    <<"USD", "EUR", "GBP", "JPY", "CAD", "AUD", "CHF", "CNY", "INR", "BRL",
      "KRW", "MXN">>

\* keys of currency_files, in insertion order
currency_files ==
    <<"EUR", "GBP", "JPY", "CAD", "AUD", "CHF", "CNY", "INR", "BRL", "KRW",
      "MXN">>

BITCOIN_DATASET == "mczielinski/bitcoin-historical-data"
CURRENCY_DATASET == "usamabuttar/global-currency-historical-prices-updated-daily"

\* ------------------------------------------------------------ helpers
Range(s) == {s[i] : i \in 1..Len(s)}

SeqsUpTo(S, n) == UNION {[1..k -> S] : k \in 0..n}

Min(S) == CHOOSE x \in S : \A y \in S : x <= y

Max(S) == CHOOSE x \in S : \A y \in S : x >= y

\* f"BTC_{currency_code}"
BtcCol(c) ==
    CASE c = "USD" -> "BTC_USD" [] c = "EUR" -> "BTC_EUR"
      [] c = "GBP" -> "BTC_GBP" [] c = "JPY" -> "BTC_JPY"
      [] c = "CAD" -> "BTC_CAD" [] c = "AUD" -> "BTC_AUD"
      [] c = "CHF" -> "BTC_CHF" [] c = "CNY" -> "BTC_CNY"
      [] c = "INR" -> "BTC_INR" [] c = "BRL" -> "BTC_BRL"
      [] c = "KRW" -> "BTC_KRW" [] c = "MXN" -> "BTC_MXN"

\* df.sort_values("Date"): ascending; rows of equal Date keep their order
\* (no claim below relies on the order of equal dates).
RECURSIVE InsertByDate(_, _)
InsertByDate(sorted, r) ==
    IF sorted = <<>> THEN <<r>>
    ELSE IF Head(sorted).Date <= r.Date
         THEN <<Head(sorted)>> \o InsertByDate(Tail(sorted), r)
         ELSE <<r>> \o sorted

RECURSIVE SortByDate(_)
SortByDate(df) ==
    IF df = <<>> THEN <<>>
    ELSE InsertByDate(SortByDate(SubSeq(df, 1, Len(df) - 1)), df[Len(df)])

\* ------------------------------------------- setup_kaggle_credentials
\* the faulty variant `not username and not key`
CredentialsMissingBoth(e) == ~e.username /\ ~e.key

\* `not username or not key`
CredentialsMissing(e) == ~e.username \/ ~e.key

\* --------------------------------------- load_bitcoin_data_from_kaggle
\* `"close" in col.lower()` over the column names the feeds use
ContainsClose(col) == col \in {"Close", "close"}

\* dtype of a column as pd.read_csv infers it: a header-only file has object
\* columns, a text column is object, everything else is numeric.
IsNumeric(src, col) == src.rows # <<>> /\ col # "Symbol"

\* pd.to_datetime(ts, unit="s").dt.date
DateOnly(ts) == IF ts = NaN THEN NaN ELSE ts \div SecondsPerDay

\* the days groupby("DateOnly") forms: NaN keys are dropped
FeedDays(rows) == {DateOnly(rows[i].ts) : i \in 1..Len(rows)} \ {NaN}

\* the faulty variant that keeps the first row's value, missing or not
FirstRowValue(vals) == IF vals = <<>> THEN NaN ELSE vals[1]

\* GroupBy.first(): the first non-null value of the column in the group
First(vals) ==
    LET nn == SelectSeq(vals, LAMBDA v : v # NaN)
    IN  IF nn = <<>> THEN NaN ELSE nn[1]

\* the values of column `col` in the rows of day d, in file order
GroupValues(src, col, d) ==
    LET g == SelectSeq(src.rows, LAMBDA r : DateOnly(r.ts) = d)
    IN  [i \in 1..Len(g) |-> IF col = src.tsName THEN g[i].ts ELSE g[i].val]

\* the frame's columns after groupby/first, reset_index and drop("DateOnly")
GroupedColumns(src) == <<src.tsName, src.valName, "Date">>

\* lines 76-89: the first close-named column, else the first numeric column
\* other than Date; "" stands for None
FindCloseCol(src) ==
    LET cols == GroupedColumns(src)
        named == {i \in 1..Len(cols) : ContainsClose(cols[i])}
        numeric == {i \in 1..Len(cols) :
                        IsNumeric(src, cols[i]) /\ cols[i] # "Date"}
    IN  IF named # {} THEN cols[Min(named)]
        ELSE IF numeric # {} THEN cols[Min(numeric)]
        ELSE ""

RECURSIVE DailyRows(_, _, _)
DailyRows(src, col, days) ==
    IF days = {} THEN <<>>
    ELSE LET d == Min(days)
         IN  <<[Date |-> d, BTC_USD |-> First(GroupValues(src, col, d))]>>
             \o DailyRows(src, col, days \ {d})

\* what load_bitcoin_data_from_kaggle does with the dataset: it exits the
\* process (sys.exit(1), also from the except clause) or returns the frame
LoadBitcoinData(src) ==
    IF src.status # "ok" THEN [exit |-> TRUE, df |-> <<>>]
    ELSE IF src.tsName \notin {"Timestamp", "timestamp"}
         THEN [exit |-> TRUE, df |-> <<>>]
    ELSE IF FindCloseCol(src) = "" THEN [exit |-> TRUE, df |-> <<>>]
    ELSE [exit |-> FALSE,
          df |-> SortByDate(DailyRows(src, FindCloseCol(src),
                                      FeedDays(src.rows)))]

\* ------------------------------------------ process_currency_dataframe
\* lines 170-171: two header rows are skipped when the first cell reads Ticker:
StripHeader(rows) ==
    IF Len(rows) > 2 /\ rows[1].c0 = "Ticker:"
    THEN SubSeq(rows, 3, Len(rows))
    ELSE rows

\* pd.to_datetime(cell, errors="coerce") over the cells the files use
ToDatetime(cell) ==
    CASE cell = "1970-01-01" -> 0
      [] cell = "1970-01-02" -> 1
      [] cell = "1970-01-03" -> 2
      [] OTHER -> NaN

\* pd.to_numeric(cell, errors="coerce") over the cells the files use
ToNumeric(cell) ==
    CASE cell = "1.0" -> 1000
      [] cell = "1.5" -> 1500
      [] OTHER -> NaN

\* df.dropna()
DropNa(df) == SelectSeq(df, LAMBDA r : r.Date # NaN /\ r.Rate # NaN)

\* none: the function returned None (a frame with fewer than two columns
\* raises KeyError, which the except clause turns into None)
ProcessCurrencyDataframe(file) ==
    IF file.ncols < 2 THEN [none |-> TRUE, df |-> <<>>]
    ELSE LET rows == StripHeader(file.rows)
             conv == [i \in 1..Len(rows) |->
                         [Date |-> ToDatetime(rows[i].c0),
                          Rate |-> ToNumeric(rows[i].c1)]]
         IN  [none |-> FALSE, df |-> SortByDate(DropNa(conv))]

\* -------------------------------------- load_currency_data_from_kaggle
\* lines 139-158, one turn of the loop: a missing file, an unreadable file
\* and a None frame leave the dict as it is; any other frame is stored
StoreCurrencyFrame(frames, code, file) ==
    IF file.state # "ok" THEN frames
    ELSE IF ProcessCurrencyDataframe(file).none THEN frames
    ELSE (code :> ProcessCurrencyDataframe(file).df) @@ frames

\* -------------------------------------------- calculate_bitcoin_prices
\* the faulty variant how="inner": a left row without a match is dropped
RECURSIVE MergeInner(_, _, _)
MergeInner(left, right, col) ==
    IF left = <<>> THEN <<>>
    ELSE LET l == Head(left)
             m == SelectSeq(right, LAMBDA r : r.Date = l.Date)
         IN  [i \in 1..Len(m) |-> l @@ (col :> m[i][col])]
             \o MergeInner(Tail(left), right, col)

\* pd.merge(left, right, on="Date", how="left"), right holding Date and col:
\* left rows in order, each once per matching right row, NaN without a match
RECURSIVE MergeLeft(_, _, _)
MergeLeft(left, right, col) ==
    IF left = <<>> THEN <<>>
    ELSE LET l == Head(left)
             m == SelectSeq(right, LAMBDA r : r.Date = l.Date)
         IN  (IF m = <<>> THEN <<l @@ (col :> NaN)>>
              ELSE [i \in 1..Len(m) |-> l @@ (col :> m[i][col])])
             \o MergeLeft(Tail(left), right, col)

\* Series.ffill(): by row position
RECURSIVE FfillFrom(_, _)
FfillFrom(s, last) ==
    IF s = <<>> THEN <<>>
    ELSE LET v == IF Head(s) = NaN THEN last ELSE Head(s)
         IN  <<v>> \o FfillFrom(Tail(s), v)

Ffill(s) == FfillFrom(s, NaN)

\* Series.bfill(): by row position
RECURSIVE Bfill(_)
Bfill(s) ==
    IF s = <<>> THEN <<>>
    ELSE LET rest == Bfill(Tail(s))
         IN  IF Head(s) # NaN \/ rest = <<>> THEN <<Head(s)>> \o rest
             ELSE <<rest[1]>> \o rest

\* float product; NaN propagates
Mul(a, b) == IF a = NaN \/ b = NaN THEN NaN ELSE (a * b) \div Scale

\* result: the frame returned; actual_data: the count the function prints
CalculateBitcoinPrices(btc, cur, code) ==
    LET merged == MergeLeft(btc, SortByDate(cur), "Rate")
        rate == Bfill(Ffill([i \in 1..Len(merged) |-> merged[i].Rate]))
        filled_count == Cardinality({i \in 1..Len(rate) : rate[i] = NaN})
    IN  [result |-> [i \in 1..Len(merged) |->
                        (BtcCol(code) :> Mul(merged[i].BTC_USD, rate[i]))
                        @@ [Date |-> merged[i].Date]],
         actual_data |-> Len(merged) - filled_count]

\* ----------------------------------------------------------------- main
\* the currencies the loop of lines 250-268 does not skip
Processed(cdfs) ==
    {c \in Range(SUPPORTED_CURRENCIES) : c # "USD" /\ c \in DOMAIN cdfs}

\* lines 250-268 from SUPPORTED_CURRENCIES[i] on; res is result_df
RECURSIVE ProcessFrom(_, _, _, _)
ProcessFrom(i, btc, cdfs, res) ==
    IF i > Len(SUPPORTED_CURRENCIES) THEN res
    ELSE LET c == SUPPORTED_CURRENCIES[i]
         IN  IF c \notin Processed(cdfs) THEN ProcessFrom(i + 1, btc, cdfs, res)
             ELSE ProcessFrom(i + 1, btc, cdfs,
                    [columns |-> Append(res.columns, BtcCol(c)),
                     rows |-> MergeLeft(res.rows,
                                CalculateBitcoinPrices(btc, cdfs[c], c).result,
                                BtcCol(c))])

\* `"JPY" in col or "KRW" in col` over the frame's column names
ZeroDecimal(col) == col \in {"BTC_JPY", "BTC_KRW"}

\* the faulty variant that rounds every column to 2 decimals
DecimalsAlwaysTwo(col) == 2

\* lines 273-277: the decimals a BTC_ column is rounded to
Decimals(col) == IF ZeroDecimal(col) THEN 0 ELSE 2

\* the fixed-point step of a value with k decimals
Unit(k) == IF k = 0 THEN Scale ELSE IF k = 1 THEN 100 ELSE 10

\* Series.round(k): to the nearest step, halves to the even neighbour
Round(v, k) ==
    IF v = NaN THEN NaN
    ELSE LET u == Unit(k)
             q == v \div u
             r == v % u
         IN  IF 2 * r < u THEN q * u
             ELSE IF 2 * r > u THEN (q + 1) * u
             ELSE IF q % 2 = 0 THEN q * u ELSE (q + 1) * u

\* lines 271-277
RoundFrame(df) ==
    [columns |-> df.columns,
     rows |-> [i \in 1..Len(df.rows) |->
                 [col \in DOMAIN df.rows[i] |->
                     IF col # "Date"
                     THEN Round(df.rows[i][col], Decimals(col))
                     ELSE df.rows[i][col]]]]

\* df.sort_values("Date", ascending=False); rows of equal Date keep their order
RECURSIVE InsertByDateDesc(_, _)
InsertByDateDesc(sorted, r) ==
    IF sorted = <<>> THEN <<r>>
    ELSE IF Head(sorted).Date >= r.Date
         THEN <<Head(sorted)>> \o InsertByDateDesc(Tail(sorted), r)
         ELSE <<r>> \o sorted

RECURSIVE SortByDateDesc(_)
SortByDateDesc(df) ==
    IF df = <<>> THEN <<>>
    ELSE InsertByDateDesc(SortByDateDesc(SubSeq(df, 1, Len(df) - 1)),
                          df[Len(df)])

\* dt.strftime("%Y-%m-%d") over the days the model reaches
Strftime(d) ==
    <<"1970-01-01", "1970-01-02", "1970-01-03", "1970-01-04", "1970-01-05",
      "1970-01-06", "1970-01-07", "1970-01-08">>[d + 1]

\* lines 280-283
SortAndFormat(df) ==
    LET sorted == SortByDateDesc(df.rows)
    IN  [columns |-> df.columns,
         rows |-> [i \in 1..Len(sorted) |->
                     [sorted[i] EXCEPT !["Date"] = Strftime(@)]]]

\* ------------------------------------------------------------- inputs
Envs == [username : BOOLEAN, key : BOOLEAN]

NoFrames == [c \in {} |-> <<>>]

NoTable == [columns |-> <<>>, rows |-> <<>>]

FailedSource(status) ==
    [status |-> status, tsName |-> "Timestamp", valName |-> "Close",
     rows |-> <<>>]

\* the Bitcoin dataset: unreachable, without its file, or a file with a
\* timestamp-like column, one value column and the given rows
BitcoinSources(feeds) ==
    {FailedSource("unreachable"), FailedSource("file_missing")}
    \cup {[status |-> "ok", tsName |-> t, valName |-> v, rows |-> r] :
            t \in {"Timestamp", "timestamp", "time"},
            v \in {"Close", "close", "Open", "Symbol"},
            r \in feeds}

Prices == {1245, 2500}

\* feeds of the loader's own specification: several observations a day, in
\* any order, with missing timestamps and missing values
FeedTimestamps ==
    {NaN} \cup {d * SecondsPerDay + o : d \in 0..MaxFeedDay, o \in {0, 60}}

Feeds == SeqsUpTo([ts : FeedTimestamps, val : Prices \cup {NaN}], MaxFeedRows)

\* feeds of the whole run: no day, one day, two days
MainFeeds ==
    {<<>>,
     <<[ts |-> 0, val |-> 1245]>>,
     <<[ts |-> 0, val |-> 1245], [ts |-> SecondsPerDay, val |-> 2500]>>}

\* the currencies whose file the modelled dataset may hold
DatasetCodes == {"EUR", "JPY", "KRW"}

HeaderRows == <<[c0 |-> "Ticker:", c1 |-> "EURUSD=X"], [c0 |-> "Date", c1 |-> ""]>>

FileRowKinds ==
    {[c0 |-> "1970-01-01", c1 |-> "1.5"],
     [c0 |-> "1970-01-02", c1 |-> "1.0"],
     [c0 |-> "n/a", c1 |-> "1.0"]}

\* a currency file: missing, unreadable, a one-column file, or two columns
\* of data rows with or without the two header rows
CurrencyFiles ==
    {[state |-> "missing", ncols |-> 0, rows |-> <<>>],
     [state |-> "unreadable", ncols |-> 0, rows |-> <<>>],
     [state |-> "ok", ncols |-> 1, rows |-> <<>>]}
    \cup {[state |-> "ok", ncols |-> 2, rows |-> h \o r] :
            h \in {<<>>, HeaderRows}, r \in SeqsUpTo(FileRowKinds, MaxFileRows)}

FilesOf(code) ==
    IF code \in DatasetCodes THEN CurrencyFiles
    ELSE {[state |-> "missing", ncols |-> 0, rows |-> <<>>]}

\* ------------------------------------------------------------ actions
Init ==
    /\ pc = "setup"
    /\ env \in Envs
    /\ btc_source \in BitcoinSources(MainFeeds)
    /\ downloads = <<>>
    /\ bitcoin_df = <<>>
    /\ file_index = 0
    /\ currency_dataframes = NoFrames
    /\ currency_prices = NoFrames
    /\ actual_data = NoFrames
    /\ result_df = NoTable
    /\ output = [written |-> FALSE, table |-> NoTable]

\* main, line 233
SetupCredentials ==
    /\ pc = "setup"
    /\ pc' = IF CredentialsMissing(env) THEN "exit" ELSE "load_bitcoin"
    /\ UNCHANGED <<env, btc_source, downloads, bitcoin_df, file_index,
                   currency_dataframes, currency_prices, actual_data,
                   result_df, output>>

\* main, lines 240-243
LoadBitcoin ==
    /\ pc = "load_bitcoin"
    /\ downloads' = Append(downloads, BITCOIN_DATASET)
    /\ LET r == LoadBitcoinData(btc_source)
       IN  IF r.exit
           THEN /\ pc' = "exit"
                /\ UNCHANGED <<bitcoin_df, result_df>>
           ELSE /\ pc' = "download_currency"
                /\ bitcoin_df' = r.df
                /\ result_df' = [columns |-> <<"Date", "BTC_USD">>,
                                 rows |-> r.df]
    /\ UNCHANGED <<env, btc_source, file_index, currency_dataframes,
                   currency_prices, actual_data, output>>

\* load_currency_data_from_kaggle, lines 128-136: a failed download is
\* caught by the outer except and the empty dict is returned
DownloadCurrencyDataset ==
    /\ pc = "download_currency"
    /\ downloads' = Append(downloads, CURRENCY_DATASET)
    /\ \E ok \in BOOLEAN :
          /\ pc' = IF ok THEN "load_currency" ELSE "process"
          /\ file_index' = IF ok THEN 1 ELSE file_index
    /\ UNCHANGED <<env, btc_source, bitcoin_df, currency_dataframes,
                   currency_prices, actual_data, result_df, output>>

\* load_currency_data_from_kaggle, lines 138-158: one turn of the loop, and
\* the return after the last one
LoadCurrencyFile ==
    /\ pc = "load_currency"
    /\ \E file \in FilesOf(currency_files[file_index]) :
          currency_dataframes' =
              StoreCurrencyFrame(currency_dataframes,
                                 currency_files[file_index], file)
    /\ IF file_index = Len(currency_files)
       THEN pc' = "process" /\ file_index' = file_index
       ELSE pc' = pc /\ file_index' = file_index + 1
    /\ UNCHANGED <<env, btc_source, downloads, bitcoin_df, currency_prices,
                   actual_data, result_df, output>>

\* main, lines 250-268
ProcessCurrencies ==
    /\ pc = "process"
    /\ pc' = "round"
    /\ currency_prices' =
          [c \in Processed(currency_dataframes) |->
              CalculateBitcoinPrices(bitcoin_df, currency_dataframes[c], c).result]
    /\ actual_data' =
          [c \in Processed(currency_dataframes) |->
              CalculateBitcoinPrices(bitcoin_df, currency_dataframes[c], c).actual_data]
    /\ result_df' = ProcessFrom(1, bitcoin_df, currency_dataframes, result_df)
    /\ UNCHANGED <<env, btc_source, downloads, bitcoin_df, file_index,
                   currency_dataframes, output>>

\* main, lines 271-277
RoundColumns ==
    /\ pc = "round"
    /\ pc' = "save"
    /\ result_df' = RoundFrame(result_df)
    /\ UNCHANGED <<env, btc_source, downloads, bitcoin_df, file_index,
                   currency_dataframes, currency_prices, actual_data, output>>

\* main, lines 280-287
SortAndSave ==
    /\ pc = "save"
    /\ pc' = "done"
    /\ result_df' = SortAndFormat(result_df)
    /\ output' = [written |-> TRUE, table |-> SortAndFormat(result_df)]
    /\ UNCHANGED <<env, btc_source, downloads, bitcoin_df, file_index,
                   currency_dataframes, currency_prices, actual_data>>

Next ==
    \/ SetupCredentials
    \/ LoadBitcoin
    \/ DownloadCurrencyDataset
    \/ LoadCurrencyFile
    \/ ProcessCurrencies
    \/ RoundColumns
    \/ SortAndSave

Spec == Init /\ [][Next]_vars

\* ----------------------- the Bitcoin loader alone, over every bounded feed
InitBitcoin ==
    /\ pc = "load_bitcoin"
    /\ env = [username |-> TRUE, key |-> TRUE]
    /\ btc_source \in BitcoinSources(Feeds)
    /\ downloads = <<>>
    /\ bitcoin_df = <<>>
    /\ file_index = 0
    /\ currency_dataframes = NoFrames
    /\ currency_prices = NoFrames
    /\ actual_data = NoFrames
    /\ result_df = NoTable
    /\ output = [written |-> FALSE, table |-> NoTable]

NextBitcoin == LoadBitcoin

SpecBitcoin == InitBitcoin /\ [][NextBitcoin]_vars

\* ------------- calculate_bitcoin_prices alone, over every bounded pair of
\* a daily Bitcoin series and a rate series as the loaders return them
RECURSIVE DailyFeed(_, _)
DailyFeed(f, days) ==
    IF days = {} THEN <<>>
    ELSE LET d == Min(days)
         IN  <<[ts |-> d * SecondsPerDay, val |-> f[d]]>>
             \o DailyFeed(f, days \ {d})

\* one observation a day, on any set of days
AlignFeeds ==
    {DailyFeed(f, DOMAIN f) :
        f \in UNION {[S -> Prices \cup {NaN}] : S \in SUBSET (0..MaxDay)}}

\* what process_currency_dataframe can return: no missing value, ascending
\* dates, a date possibly more than once
RateSeries ==
    {SortByDate(s) :
        s \in SeqsUpTo([Date : 0..MaxDay, Rate : {1000, 1500}], MaxRates)}

InitAlign ==
    /\ pc = "process"
    /\ env = [username |-> TRUE, key |-> TRUE]
    /\ \E feed \in AlignFeeds :
          /\ btc_source = [status |-> "ok", tsName |-> "Timestamp",
                           valName |-> "Close", rows |-> feed]
          /\ bitcoin_df = LoadBitcoinData(btc_source).df
          /\ result_df = [columns |-> <<"Date", "BTC_USD">>,
                          rows |-> bitcoin_df]
    /\ downloads = <<BITCOIN_DATASET, CURRENCY_DATASET>>
    /\ file_index = Len(currency_files)
    /\ \E cur \in RateSeries : currency_dataframes = [c \in {"EUR"} |-> cur]
    /\ currency_prices = NoFrames
    /\ actual_data = NoFrames
    /\ output = [written |-> FALSE, table |-> NoTable]

NextAlign == ProcessCurrencies

SpecAlign == InitAlign /\ [][NextAlign]_vars

\* ============================================================== claims
\* notions the claims are stated in
DatesOf(df) == {df[i].Date : i \in 1..Len(df)}

DateColumn(df) == [i \in 1..Len(df) |-> df[i].Date]

StrictlyIncreasingDates(df) ==
    \A i \in 1..Len(df) : \A j \in 1..Len(df) : i < j => df[i].Date < df[j].Date

\* the output rows of currency c for calendar day d
PriceRows(c, d) ==
    {j \in 1..Len(currency_prices[c]) : currency_prices[c][j].Date = d}

\* row j of currency c's output is BTC_USD of day d times a rate the rate
\* series holds for day rd
PricedAt(c, j, usd, rd) ==
    \E k \in 1..Len(currency_dataframes[c]) :
        /\ currency_dataframes[c][k].Date = rd
        /\ currency_prices[c][j][BtcCol(c)]
              = Mul(usd, currency_dataframes[c][k].Rate)

\* C1: a Bitcoin date without a rate of its own, but with an earlier date in
\* the rate series, is priced at BTC_USD times the rate of the latest
\* earlier rate date, whether or not that date is a Bitcoin date.
C1_ForwardFillByDate ==
    pc = "round" =>
        \A c \in DOMAIN currency_prices : \A i \in 1..Len(bitcoin_df) :
            LET d == bitcoin_df[i].Date
                earlier == {x \in DatesOf(currency_dataframes[c]) : x < d}
            IN  (d \notin DatesOf(currency_dataframes[c]) /\ earlier # {}) =>
                    /\ PriceRows(c, d) # {}
                    /\ \A j \in PriceRows(c, d) :
                          PricedAt(c, j, bitcoin_df[i].BTC_USD, Max(earlier))

\* C2: a leading Bitcoin date with no rate on it or before it is priced at
\* BTC_USD times the rate of the earliest date of a non-empty rate series.
C2_BackwardFillEarliest ==
    pc = "round" =>
        \A c \in DOMAIN currency_prices : \A i \in 1..Len(bitcoin_df) :
            LET d == bitcoin_df[i].Date
                dates == DatesOf(currency_dataframes[c])
            IN  (dates # {} /\ \A x \in dates : x > d) =>
                    /\ PriceRows(c, d) # {}
                    /\ \A j \in PriceRows(c, d) :
                          PricedAt(c, j, bitcoin_df[i].BTC_USD, Min(dates))

\* C3: with a non-empty rate series, no date with a Bitcoin price is left
\* without a derived price, also when the rate dates and the Bitcoin dates
\* are disjoint.
C3_NoNullAfterFilling ==
    pc = "round" =>
        \A c \in DOMAIN currency_prices :
            currency_dataframes[c] # <<>> =>
                \A i \in 1..Len(bitcoin_df) :
                    bitcoin_df[i].BTC_USD # NaN =>
                        \A j \in PriceRows(c, bitcoin_df[i].Date) :
                            currency_prices[c][j][BtcCol(c)] # NaN

\* C5: with unique rate dates, the dates of calculate_bitcoin_prices' output
\* are the Bitcoin series' dates, in the same order: none added, none dropped.
C5_DomainInvariance ==
    pc = "round" =>
        \A c \in DOMAIN currency_prices :
            StrictlyIncreasingDates(currency_dataframes[c]) =>
                DateColumn(currency_prices[c]) = DateColumn(bitcoin_df)

\* C5's case: rate-only dates and Bitcoin-only dates both exist.
C5_Witness ==
    /\ pc = "round"
    /\ "EUR" \in DOMAIN currency_prices
    /\ StrictlyIncreasingDates(currency_dataframes["EUR"])
    /\ Len(bitcoin_df) >= 2
    /\ DatesOf(currency_dataframes["EUR"]) \ DatesOf(bitcoin_df) # {}
    /\ DatesOf(bitcoin_df) \ DatesOf(currency_dataframes["EUR"]) # {}
    /\ DatesOf(bitcoin_df) \cap DatesOf(currency_dataframes["EUR"]) # {}

\* C10: the count printed as "with actual rates" is the number of Bitcoin
\* dates that have a rate on exactly that date (stated for rate series with
\* one rate per date, where each Bitcoin date is one output row).
C10_ActualRatesCount ==
    pc = "round" =>
        \A c \in DOMAIN actual_data :
            StrictlyIncreasingDates(currency_dataframes[c]) =>
              actual_data[c] =
                Cardinality({i \in 1..Len(bitcoin_df) :
                    bitcoin_df[i].Date \in DatesOf(currency_dataframes[c])})

\* the table main would build from the given frames
TableOf(cdfs) ==
    ProcessFrom(1, bitcoin_df, cdfs,
                [columns |-> <<"Date", "BTC_USD">>, rows |-> bitcoin_df])

Without(cdfs, c) == [x \in DOMAIN cdfs \ {c} |-> cdfs[x]]

\* C4: a currency whose file yields zero valid rows has no BTC_ column in
\* the output, and the other columns are what they are without its file.
C4_CurrencyOmission ==
    (pc = "done" /\ bitcoin_df # <<>>) =>
        \A c \in DOMAIN currency_dataframes :
            currency_dataframes[c] = <<>> =>
                /\ BtcCol(c) \notin Range(output.table.columns)
                /\ LET other == SortAndFormat(RoundFrame(
                                   TableOf(Without(currency_dataframes, c))))
                   IN  /\ Len(other.rows) = Len(output.table.rows)
                       /\ \A i \in 1..Len(other.rows) :
                            \A col \in DOMAIN other.rows[i] :
                                other.rows[i][col] = output.table.rows[i][col]

\* C6: at the end of a run, every frame the rate loader returned has strictly
\* increasing dates and the output has exactly one row per date of the
\* daily Bitcoin series.
C6_OneRowPerDay ==
    (pc = "done" /\ bitcoin_df # <<>>) =>
        /\ \A c \in DOMAIN currency_dataframes :
              StrictlyIncreasingDates(currency_dataframes[c])
        /\ Len(output.table.rows) = Len(bitcoin_df)
        /\ {output.table.rows[i].Date : i \in 1..Len(output.table.rows)}
              = {Strftime(d) : d \in DatesOf(bitcoin_df)}

\* the records of the feed that fall on day d, by position in the file
DayRecords(d) ==
    {i \in 1..Len(btc_source.rows) : DateOnly(btc_source.rows[i].ts) = d}

DailySeriesShape ==
    /\ StrictlyIncreasingDates(bitcoin_df)
    /\ DatesOf(bitcoin_df) = FeedDays(btc_source.rows)

CredentialAbsent == ~env.username \/ ~env.key

\* the feed has neither a close-named column nor a numeric one
NoDerivableClose ==
    \A col \in {btc_source.tsName, btc_source.valName} :
        ~ContainsClose(col) /\ ~IsNumeric(btc_source, col)

\* the Bitcoin series cannot be obtained
BitcoinUnobtainable ==
    \/ btc_source.status \in {"unreachable", "file_missing"}
    \/ btc_source.tsName \notin {"Timestamp", "timestamp"}
    \/ NoDerivableClose

\* C8: without credentials the run ends before any dataset is requested;
\* without a Bitcoin series it ends before any currency is loaded; in both
\* cases nothing is written; no dataset is requested twice.
C8_FatalErrorsStop ==
    /\ CredentialAbsent =>
          /\ pc \in {"setup", "exit"}
          /\ downloads = <<>>
          /\ ~output.written
    /\ BitcoinUnobtainable =>
          /\ pc \in {"setup", "load_bitcoin", "exit"}
          /\ CURRENCY_DATASET \notin Range(downloads)
          /\ file_index = 0
          /\ currency_dataframes = NoFrames
          /\ ~output.written
    /\ \A i \in 1..Len(downloads) : \A j \in 1..Len(downloads) :
          downloads[i] = downloads[j] => i = j

\* C8's case: credentials present, the feed has a timestamp but no
\* derivable close price, and the run has ended after the one download.
C8_Witness ==
    /\ pc = "exit"
    /\ ~CredentialAbsent
    /\ btc_source.status = "ok"
    /\ btc_source.tsName \in {"Timestamp", "timestamp"}
    /\ NoDerivableClose
    /\ downloads = <<BITCOIN_DATASET>>

Abs(x) == IF x < 0 THEN -x ELSE x

\* v is raw rounded to a multiple of step
RoundedTo(v, raw, step) ==
    IF raw = NaN THEN v = NaN
    ELSE v # NaN /\ v % step = 0 /\ 2 * Abs(v - raw) <= step

\* C9: rounding turns every BTC_JPY and BTC_KRW value into the value rounded
\* to 0 decimals and every other BTC_ value into the value rounded to 2
\* decimals, and the file holds exactly the rounded rows.
C9_RoundingLaw ==
    [][/\ pc = "round" =>
            /\ Len(result_df'.rows) = Len(result_df.rows)
            /\ \A i \in 1..Len(result_df.rows) :
                  \A col \in DOMAIN result_df.rows[i] \ {"Date"} :
                      RoundedTo(result_df'.rows[i][col], result_df.rows[i][col],
                                IF col \in {"BTC_JPY", "BTC_KRW"} THEN 1000
                                ELSE 10)
       /\ pc = "save" =>
            /\ Len(output'.table.rows) = Len(result_df.rows)
            /\ \A col \in Range(result_df.columns) \ {"Date"} :
                  \A v \in {result_df.rows[k][col] : k \in 1..Len(result_df.rows)} :
                      Cardinality({i \in 1..Len(result_df.rows) :
                                      result_df.rows[i][col] = v})
                      = Cardinality({i \in 1..Len(result_df.rows) :
                                      output'.table.rows[i][col] = v})
      ]_vars

\* C9's case: a yen price and a euro price that rounding changed, each by
\* its own rule.
C9_Witness ==
    /\ pc = "save"
    /\ {"EUR", "JPY"} \subseteq DOMAIN currency_prices
    /\ Len(currency_prices["JPY"]) = Len(result_df.rows)
    /\ Len(currency_prices["EUR"]) = Len(result_df.rows)
    /\ \E i \in 1..Len(result_df.rows) :
          /\ currency_prices["JPY"][i].BTC_JPY \notin {NaN, result_df.rows[i].BTC_JPY}
          /\ currency_prices["EUR"][i].BTC_EUR \notin {NaN, result_df.rows[i].BTC_EUR}
          /\ result_df.rows[i].BTC_JPY % 1000 = 0
          /\ result_df.rows[i].BTC_EUR % 1000 # 0

====
